---- MODULE Spec2Model ----
(***************************************************************************)
(* Model of examples/switch_layout.py: a command line tool that copies a   *)
(* layout preset over editor_layout.json, with backup and restore.         *)
(*                                                                         *)
(* The state is the part of the file system the script touches, the        *)
(* registry loaded from layout_config.json, and the record of the          *)
(* invocation that just ran.  One step is one whole invocation of main(),  *)
(* or one change of the destination file made from outside the script.     *)
(***************************************************************************)
EXTENDS Integers, Sequences, FiniteSets, TLC

\* ---------------------------------------------------------------- bounds
NumContents == 2      \* distinct whole file contents: 1..NumContents
MaxLayouts == 2       \* most layouts in the registry

\* ------------------------------------------------------- file contents
Absent == 0           \* Path.exists() is False
Torn == 0 - 1         \* what a copy that broke off while writing leaves behind
Contents == 1..NumContents
FileStates == {Absent, Torn} \cup Contents

\* ----------------------------------------------------- the config file
\* The layout ids the config file may define, and one it never defines.
LayoutName(i) ==
  CASE i = 1 -> "developer"
    [] i = 2 -> "dual_monitor"
    [] i = 3 -> "presentation"
    [] OTHER -> "minimal"
LayoutIds == {LayoutName(i) : i \in 1..MaxLayouts}
UnknownId == "nosuch"
ConfigStates == {"ok", "missing", "invalid"}

\* The record json.load returns for one layout id.
LayoutInfo(id) ==
  CASE id = "developer" ->
         [name |-> "Developer", description |-> "Code and scene",
          recommended_resolution |-> "1920x1080",
          use_cases |-> <<"coding", "debugging">>, file |-> "developer.json"]
    [] id = "dual_monitor" ->
         [name |-> "Dual Monitor", description |-> "Two screens",
          recommended_resolution |-> "3840x1080",
          use_cases |-> <<"editing">>, file |-> "dual_monitor.json"]
    [] id = "presentation" ->
         [name |-> "Presentation", description |-> "One big viewport",
          recommended_resolution |-> "1280x720",
          use_cases |-> <<>>, file |-> "presentation.json"]
    [] OTHER ->
         [name |-> "Minimal", description |-> "Viewport only",
          recommended_resolution |-> "1024x768",
          use_cases |-> <<"testing", "demos", "low end">>, file |-> "minimal.json"]

PresetFiles == {LayoutInfo(id).file : id \in LayoutIds}

\* The bytes of the i-th preset file when it is on disk.
PresetContent(i) == ((i - 1) % NumContents) + 1

\* The sequences that list some of the first n layout ids, each once, in
\* the order of their numbers: the keys of the "layouts" object as they
\* stand in the document.
RECURSIVE KeyOrders(_)
KeyOrders(n) ==
  IF n = 0 THEN {<<>>}
  ELSE KeyOrders(n - 1) \cup {Append(q, LayoutName(n)) : q \in KeyOrders(n - 1)}

Range(s) == {s[i] : i \in 1..Len(s)}

VARIABLES
  config,     \* state of layout_config.json
  registry,   \* config["layouts"]: the layout ids in the order of the document
  presets,    \* content of each preset file next to the script
  dest,       \* content of editor_layout.json
  backup,     \* content of current_layout_backup.json
  last,       \* the invocation that just ran
  hist        \* what earlier invocations saw, kept for the properties

vars == <<config, registry, presets, dest, backup, last, hist>>

\* ------------------------------------------------------------- output
\* One printed block.  Every block has the same fields.
Msg(tag) ==
  [tag |-> tag, id |-> "", name |-> "", description |-> "",
   recommended_resolution |-> "", use_cases |-> "", file |-> ""]

\* ', '.join(use_cases)
RECURSIVE Join(_)
Join(s) ==
  IF Len(s) = 0 THEN ""
  ELSE IF Len(s) = 1 THEN s[1]
  ELSE s[1] \o ", " \o Join(Tail(s))

\* str.lower() on the command words the model feeds in.
Lower(s) ==
  CASE s = "LIST" -> "list"
    [] s = "Apply" -> "apply"
    [] s = "HELP" -> "help"
    [] s = "Remove" -> "remove"
    [] s = "REMOVE" -> "remove"
    [] OTHER -> s

\* ------------------------------------------------------- shutil.copy2
\* How one call of shutil.copy2 can end: it goes through, it raises before
\* the target is opened for writing, it raises while writing, or it raises
\* in copystat after the content is written.
CopyOutcomes == {"ok", "fail_before", "fail_torn", "fail_stat"}

\* copy2(src, dst): the content of dst afterwards and whether it raised.
Copy2(src, dst, outcome) ==
  CASE outcome = "ok" -> [content |-> src, raised |-> FALSE]
    [] outcome = "fail_before" -> [content |-> dst, raised |-> TRUE]
    [] outcome = "fail_torn" -> [content |-> Torn, raised |-> TRUE]
    [] OTHER -> [content |-> src, raised |-> TRUE]

\* ------------------------------------------------------- the handlers
\* Each handler returns the files as it leaves them, what it printed, the
\* failures it ran into, and whether it called sys.exit(1).

\* Variant: a config file that is not valid JSON is treated as an empty one.
load_config_lenient(cfg) ==
  CASE cfg = "ok" -> [exited |-> FALSE, out |-> <<>>, failures |-> {}]
    [] cfg = "missing" ->
         [exited |-> TRUE, out |-> <<Msg("error_config_not_found")>>,
          failures |-> {"config_missing"}]
    [] OTHER ->
         [exited |-> FALSE, out |-> <<Msg("error_config_invalid_json")>>,
          failures |-> {"config_invalid"}]

load_config(cfg) ==
  CASE cfg = "ok" -> [exited |-> FALSE, out |-> <<>>, failures |-> {}]
    [] cfg = "missing" ->
         [exited |-> TRUE, out |-> <<Msg("error_config_not_found")>>,
          failures |-> {"config_missing"}]
    [] OTHER ->
         [exited |-> TRUE, out |-> <<Msg("error_config_invalid_json")>>,
          failures |-> {"config_invalid"}]

ListEntry(id) ==
  [tag |-> "layout", id |-> id, name |-> LayoutInfo(id).name,
   description |-> LayoutInfo(id).description,
   recommended_resolution |-> LayoutInfo(id).recommended_resolution,
   use_cases |-> Join(LayoutInfo(id).use_cases), file |-> ""]

\* Variant: the loop stops one layout short.
list_layouts_short(reg) ==
  <<Msg("available_layouts")>> \o [i \in 1..(Len(reg) - 1) |-> ListEntry(reg[i])]

list_layouts(reg) ==
  <<Msg("available_layouts")>> \o [i \in 1..Len(reg) |-> ListEntry(reg[i])]

show_usage == <<Msg("usage")>>

\* Variant: a destination that is gone takes the old backup with it.
backup_current_layout_prune(d, b, outcome) ==
  IF d # Absent
  THEN LET c == Copy2(d, b, outcome) IN
       IF c.raised
       THEN [backup |-> c.content, out |-> <<Msg("warning_backup_failed")>>,
             failures |-> {"backup_copy_failed"}]
       ELSE [backup |-> c.content, out |-> <<Msg("backed_up")>>, failures |-> {}]
  ELSE [backup |-> Absent, out |-> <<Msg("no_current_layout")>>, failures |-> {}]

\* Variant: an existing backup is never overwritten.
backup_current_layout_keep(d, b, outcome) ==
  IF d # Absent /\ b = Absent
  THEN LET c == Copy2(d, b, outcome) IN
       IF c.raised
       THEN [backup |-> c.content, out |-> <<Msg("warning_backup_failed")>>,
             failures |-> {"backup_copy_failed"}]
       ELSE [backup |-> c.content, out |-> <<Msg("backed_up")>>, failures |-> {}]
  ELSE [backup |-> b, out |-> <<Msg("no_current_layout")>>, failures |-> {}]

backup_current_layout(d, b, outcome) ==
  IF d # Absent
  THEN LET c == Copy2(d, b, outcome) IN
       IF c.raised
       THEN [backup |-> c.content, out |-> <<Msg("warning_backup_failed")>>,
             failures |-> {"backup_copy_failed"}]
       ELSE [backup |-> c.content, out |-> <<Msg("backed_up")>>, failures |-> {}]
  ELSE [backup |-> b, out |-> <<Msg("no_current_layout")>>, failures |-> {}]

\* The lines apply_layout prints after a copy that went through.
Applied(layout_id) ==
  [Msg("applied") EXCEPT
     !.id = layout_id,
     !.name = LayoutInfo(layout_id).name,
     !.description = LayoutInfo(layout_id).description,
     !.file = LayoutInfo(layout_id).file]

\* Variant: source and target of the copy are swapped, so the destination
\* keeps its content.
apply_layout_swapped(reg, files, layout_id, d, outcome) ==
  IF layout_id \notin Range(reg)
  THEN [dest |-> d, exited |-> TRUE, out |-> <<Msg("error_layout_not_found")>>,
        failures |-> {"unknown_layout"}]
  ELSE LET source_file == LayoutInfo(layout_id).file IN
       IF files[source_file] = Absent
       THEN [dest |-> d, exited |-> TRUE,
             out |-> <<Msg("error_layout_file_not_found")>>,
             failures |-> {"source_missing"}]
       ELSE LET c == Copy2(d, files[source_file], outcome) IN
            IF c.raised
            THEN [dest |-> d, exited |-> TRUE,
                  out |-> <<Msg("error_copy_failed")>>,
                  failures |-> {"apply_copy_failed"}]
            ELSE [dest |-> d, exited |-> FALSE,
                  out |-> <<Applied(layout_id)>>, failures |-> {}]

\* Variant: an unknown id is reported but the function returns instead of
\* exiting.
apply_layout_noexit(reg, files, layout_id, d, outcome) ==
  IF layout_id \notin Range(reg)
  THEN [dest |-> d, exited |-> FALSE, out |-> <<Msg("error_layout_not_found")>>,
        failures |-> {"unknown_layout"}]
  ELSE LET source_file == LayoutInfo(layout_id).file IN
       IF files[source_file] = Absent
       THEN [dest |-> d, exited |-> TRUE,
             out |-> <<Msg("error_layout_file_not_found")>>,
             failures |-> {"source_missing"}]
       ELSE LET c == Copy2(files[source_file], d, outcome) IN
            IF c.raised
            THEN [dest |-> c.content, exited |-> TRUE,
                  out |-> <<Msg("error_copy_failed")>>,
                  failures |-> {"apply_copy_failed"}]
            ELSE [dest |-> c.content, exited |-> FALSE,
                  out |-> <<Applied(layout_id)>>, failures |-> {}]

apply_layout(reg, files, layout_id, d, outcome) ==
  IF layout_id \notin Range(reg)
  THEN [dest |-> d, exited |-> TRUE, out |-> <<Msg("error_layout_not_found")>>,
        failures |-> {"unknown_layout"}]
  ELSE LET source_file == LayoutInfo(layout_id).file IN
       IF files[source_file] = Absent
       THEN [dest |-> d, exited |-> TRUE,
             out |-> <<Msg("error_layout_file_not_found")>>,
             failures |-> {"source_missing"}]
       ELSE LET c == Copy2(files[source_file], d, outcome) IN
            IF c.raised
            THEN [dest |-> c.content, exited |-> TRUE,
                  out |-> <<Msg("error_copy_failed")>>,
                  failures |-> {"apply_copy_failed"}]
            ELSE [dest |-> c.content, exited |-> FALSE,
                  out |-> <<Applied(layout_id)>>, failures |-> {}]

\* Variant: the backup is copied back only when the destination is gone.
restore_backup_if_missing(d, b, outcome) ==
  IF b = Absent
  THEN [dest |-> d, exited |-> TRUE, out |-> <<Msg("error_no_backup")>>,
        failures |-> {"backup_missing"}]
  ELSE IF d # Absent
  THEN [dest |-> d, exited |-> FALSE, out |-> <<Msg("restored")>>, failures |-> {}]
  ELSE LET c == Copy2(b, d, outcome) IN
       IF c.raised
       THEN [dest |-> c.content, exited |-> TRUE,
             out |-> <<Msg("error_restore_failed")>>,
             failures |-> {"restore_copy_failed"}]
       ELSE [dest |-> c.content, exited |-> FALSE,
             out |-> <<Msg("restored")>>, failures |-> {}]

\* Variant: a missing backup is reported but the function returns instead
\* of exiting.
restore_backup_noexit(d, b, outcome) ==
  IF b = Absent
  THEN [dest |-> d, exited |-> FALSE, out |-> <<Msg("error_no_backup")>>,
        failures |-> {"backup_missing"}]
  ELSE LET c == Copy2(b, d, outcome) IN
       IF c.raised
       THEN [dest |-> c.content, exited |-> TRUE,
             out |-> <<Msg("error_restore_failed")>>,
             failures |-> {"restore_copy_failed"}]
       ELSE [dest |-> c.content, exited |-> FALSE,
             out |-> <<Msg("restored")>>, failures |-> {}]

\* Variant: a failed restore copy is only a warning, as in the backup.
restore_backup_warn(d, b, outcome) ==
  IF b = Absent
  THEN [dest |-> d, exited |-> TRUE, out |-> <<Msg("error_no_backup")>>,
        failures |-> {"backup_missing"}]
  ELSE LET c == Copy2(b, d, outcome) IN
       IF c.raised
       THEN [dest |-> c.content, exited |-> FALSE,
             out |-> <<Msg("error_restore_failed")>>,
             failures |-> {"restore_copy_failed"}]
       ELSE [dest |-> c.content, exited |-> FALSE,
             out |-> <<Msg("restored")>>, failures |-> {}]

restore_backup(d, b, outcome) ==
  IF b = Absent
  THEN [dest |-> d, exited |-> TRUE, out |-> <<Msg("error_no_backup")>>,
        failures |-> {"backup_missing"}]
  ELSE LET c == Copy2(b, d, outcome) IN
       IF c.raised
       THEN [dest |-> c.content, exited |-> TRUE,
             out |-> <<Msg("error_restore_failed")>>,
             failures |-> {"restore_copy_failed"}]
       ELSE [dest |-> c.content, exited |-> FALSE,
             out |-> <<Msg("restored")>>, failures |-> {}]

\* ----------------------------------------------------------------- main
\* The result of one invocation: files afterwards, exit code, output.
Result(d, b, code, out, failures) ==
  [dest |-> d, backup |-> b, exit |-> code, out |-> out, failures |-> failures]

\* argv is sys.argv[1:]; oc1 and oc2 are the outcomes of the copies the
\* invocation makes (the backup copy, then the apply or restore copy).
main(argv, cfg, reg, files, d, b, oc1, oc2) ==
  IF Len(argv) < 1
  THEN Result(d, b, 1, show_usage, {})
  ELSE
    LET command == Lower(argv[1])
        loaded == load_config(cfg)
    IN
    IF loaded.exited
    THEN Result(d, b, 1, loaded.out, loaded.failures)
    ELSE
      CASE command = "list" -> Result(d, b, 0, list_layouts(reg), {})
        [] command = "apply" ->
             IF Len(argv) < 2
             THEN Result(d, b, 1, <<Msg("error_no_layout_id")>>, {"layout_id_missing"})
             ELSE
               LET bk == backup_current_layout(d, b, oc1)
                   ap == apply_layout(reg, files, argv[2], d, oc2)
               IN Result(ap.dest, bk.backup, IF ap.exited THEN 1 ELSE 0,
                         bk.out \o ap.out, bk.failures \cup ap.failures)
        [] command = "backup" ->
             LET bk == backup_current_layout(d, b, oc1)
             IN Result(d, bk.backup, 0, bk.out, bk.failures)
        [] command = "restore" ->
             LET rs == restore_backup(d, b, oc2)
             IN Result(rs.dest, b, IF rs.exited THEN 1 ELSE 0, rs.out, rs.failures)
        [] command \in {"help", "-h", "--help"} -> Result(d, b, 0, show_usage, {})
        [] OTHER ->
             Result(d, b, 1, <<Msg("error_unknown_command")>> \o show_usage, {})

\* ----------------------------------------------------------- the steps
Idle ==
  [cmd |-> "", arg |-> "", exit |-> 0, out |-> <<>>, failures |-> {},
   preDest |-> Absent, preBackup |-> Absent, ran |-> FALSE]

NoHistory ==
  [snap |-> Absent, snapOk |-> Absent, saved |-> Absent, savedOk |-> FALSE]

\* Did the invocation get as far as calling backup_current_layout()?
ReachedBackup(argv, cfg) ==
  /\ Len(argv) >= 1
  /\ ~load_config(cfg).exited
  /\ \/ Lower(argv[1]) = "backup"
     \/ Lower(argv[1]) = "apply" /\ Len(argv) >= 2

\* The history after an invocation that started with destination d and
\* ended with result r.
\*   snap    the destination at the start of the latest invocation that
\*           called backup_current_layout() while the destination existed;
\*           Absent if there was none or its backup copy raised
\*   snapOk  the same, counting only invocations that exited 0; Absent also
\*           after an invocation in which any copy raised
\*   saved   the destination at the start of the latest `backup` command,
\*           Absent once a later `backup` found none or an `apply` ran
\*   savedOk that `backup` command loaded the config and its copy went through
Record(h, argv, cfg, d, r) ==
  LET cmd == IF Len(argv) < 1 THEN "" ELSE Lower(argv[1])
      copyFailed ==
        r.failures \cap {"backup_copy_failed", "apply_copy_failed",
                         "restore_copy_failed"} # {}
      took == ReachedBackup(argv, cfg) /\ d # Absent
  IN
  [snap |-> IF ~took THEN h.snap
            ELSE IF "backup_copy_failed" \in r.failures THEN Absent ELSE d,
   snapOk |-> IF copyFailed THEN Absent
              ELSE IF took /\ r.exit = 0 THEN d ELSE h.snapOk,
   saved |-> IF cmd = "backup" THEN d
             ELSE IF cmd = "apply" THEN Absent ELSE h.saved,
   savedOk |-> IF cmd = "backup"
               THEN d # Absent /\ r.exit = 0 /\ r.failures = {}
               ELSE IF cmd = "apply" THEN FALSE ELSE h.savedOk]

\* One invocation of the script with the given arguments.
Run(argv, oc1, oc2) ==
  LET r == main(argv, config, registry, presets, dest, backup, oc1, oc2) IN
  /\ dest' = r.dest
  /\ backup' = r.backup
  /\ last' = [cmd |-> IF Len(argv) < 1 THEN "" ELSE Lower(argv[1]),
              arg |-> IF Len(argv) < 2 THEN "" ELSE argv[2],
              exit |-> r.exit, out |-> r.out, failures |-> r.failures,
              preDest |-> dest, preBackup |-> backup, ran |-> TRUE]
  /\ hist' = Record(hist, argv, config, dest, r)
  /\ UNCHANGED <<config, registry, presets>>

\* The outcomes worth telling apart for a copy that is made only if `made`.
Outcomes(made) == IF made THEN CopyOutcomes ELSE {"ok"}

NoArgs == Run(<<>>, "ok", "ok")

CmdList == \E w \in {"list", "LIST"} : Run(<<w>>, "ok", "ok")

CmdApply ==
  \E id \in Range(registry) \cup {UnknownId} :
    \E oc1 \in Outcomes(config = "ok" /\ dest # Absent),
       oc2 \in Outcomes(/\ config = "ok"
                        /\ id \in Range(registry)
                        /\ presets[LayoutInfo(id).file] # Absent) :
      Run(<<"apply", id>>, oc1, oc2)

CmdApplyNoId == \E w \in {"apply", "Apply"} : Run(<<w>>, "ok", "ok")

CmdBackup ==
  \E oc1 \in Outcomes(config = "ok" /\ dest # Absent) : Run(<<"backup">>, oc1, "ok")

CmdRestore ==
  \E oc2 \in Outcomes(config = "ok" /\ backup # Absent) : Run(<<"restore">>, "ok", oc2)

CmdHelp == \E w \in {"help", "-h", "--help", "HELP"} : Run(<<w>>, "ok", "ok")

CmdUnknown == \E w \in {"remove", "Remove", "REMOVE"} : Run(<<w>>, "ok", "ok")

\* The editor, or the user, rewrites or deletes editor_layout.json.
EditDest ==
  \E c \in Contents \cup {Absent} :
    /\ c # dest
    /\ dest' = c
    /\ last' = Idle
    /\ UNCHANGED <<config, registry, presets, backup, hist>>

Init ==
  /\ config \in ConfigStates
  /\ registry \in IF config = "ok" THEN KeyOrders(MaxLayouts) ELSE {<<>>}
  /\ presets \in {f \in [PresetFiles -> Contents \cup {Absent}] :
                    \A i \in 1..MaxLayouts :
                      LET id == LayoutName(i) IN
                      \* a preset file may be missing; one that no layout of
                      \* the registry names is never looked at
                      \/ f[LayoutInfo(id).file] = PresetContent(i)
                      \/ f[LayoutInfo(id).file] = Absent /\ id \in Range(registry)}
  /\ dest \in Contents \cup {Absent}
  /\ backup \in Contents \cup {Absent}
  /\ last = Idle
  /\ hist = NoHistory

Next ==
  \/ NoArgs
  \/ CmdList
  \/ CmdApply
  \/ CmdApplyNoId
  \/ CmdBackup
  \/ CmdRestore
  \/ CmdHelp
  \/ CmdUnknown
  \/ EditDest

Spec == Init /\ [][Next]_vars

TypeOK ==
  /\ config \in ConfigStates
  /\ dest \in FileStates
  /\ backup \in FileStates
  /\ last.exit \in {0, 1}

\* ------------------------------------------------------------ properties
Printed(tag) == \E i \in 1..Len(last.out) : last.out[i].tag = tag
Invoked(cmd) == last.ran /\ last.cmd = cmd
FilesUntouched == dest = last.preDest /\ backup = last.preBackup
SourceOf(id) == presets[LayoutInfo(id).file]

\* C1: `apply <id>` for an id of the registry whose preset file exists, when
\* the copy over the destination does not fail, leaves the destination with
\* exactly the preset's content, whatever it held before, and exits 0.
ApplyKnown ==
  /\ Invoked("apply")
  /\ last.arg \in Range(registry)
  /\ SourceOf(last.arg) # Absent
  /\ "apply_copy_failed" \notin last.failures
C1_ApplyCopiesPreset ==
  ApplyKnown => dest = SourceOf(last.arg) /\ last.exit = 0
C1_Witness ==
  /\ ApplyKnown
  /\ last.preDest \in Contents
  /\ last.preDest # SourceOf(last.arg)
  /\ dest = SourceOf(last.arg)

\* C2: `apply <id>` for an id that is not a key of the registry exits
\* non-zero and leaves the destination as it was.
ApplyUnknown ==
  /\ Invoked("apply")
  /\ last.arg # ""
  /\ last.arg \notin Range(registry)
C2_UnknownIdLeavesDest ==
  ApplyUnknown => last.exit # 0 /\ dest = last.preDest
C2_Witness ==
  /\ ApplyUnknown
  /\ config = "ok"
  /\ Len(registry) > 0
  /\ Printed("error_layout_not_found")
  /\ dest \in Contents

\* C3 as stated: a `restore` that follows a `backup` made while the
\* destination held C, with no `backup` or `apply` in between, leaves the
\* destination with C and exits 0 (the config file does not change, so the
\* `backup` exited 0 whenever the `restore` does).
RestoreAfterBackup == Invoked("restore") /\ hist.saved # Absent
C4_RestoreWithoutBackup ==
  (Invoked("restore") /\ last.preBackup = Absent)
    => last.exit # 0 /\ dest = last.preDest /\ backup = Absent
C4_Witness ==
  /\ Invoked("restore")
  /\ last.preBackup = Absent
  /\ Printed("error_no_backup")
  /\ dest \in Contents

C6_RejectedApplyWritesNothing ==
  (ApplyUnknown /\ config = "ok") => FilesUntouched

\* C7 as stated: `help`, `-h`, `--help` and every unrecognised command print
\* the usage text and write no file, in every state of the config file.
UsageCommand ==
  /\ last.ran
  /\ last.cmd # ""
  /\ last.cmd \notin {"list", "apply", "backup", "restore"}
C7_Original ==
  UsageCommand => Printed("usage") /\ FilesUntouched
\* C7 amended: such an invocation writes no file in any state; it prints the
\* usage text when the config file loads (exit 0 for help, 1 for an
\* unrecognised command), and when the config file is missing or invalid it
\* prints that error instead of the usage text and exits 1.
C7_UsageNeedsConfig ==
  UsageCommand =>
    /\ FilesUntouched
    /\ config = "ok" =>
         /\ Printed("usage")
         /\ last.exit = (IF last.cmd \in {"help", "-h", "--help"} THEN 0 ELSE 1)
    /\ config # "ok" => ~Printed("usage") /\ last.exit = 1
C7_Witness ==
  /\ UsageCommand
  /\ last.cmd = "help"
  /\ config = "ok"
  /\ Printed("usage")
  /\ dest \in Contents
  /\ backup \in Contents

\* C8: `list` on a registry of N layouts prints exactly N entries, the i-th
\* for the i-th layout id with its name, description, recommended resolution
\* and use cases, and changes no file.
ListedEntries == SelectSeq(last.out, LAMBDA m : m.tag = "layout")
C8_ListPrintsRegistry ==
  (Invoked("list") /\ config = "ok") =>
    /\ last.exit = 0
    /\ Len(ListedEntries) = Len(registry)
    /\ \A i \in 1..Len(registry) :
         LET e == ListedEntries[i]
             info == LayoutInfo(registry[i])
         IN /\ e.id = registry[i]
            /\ e.name = info.name
            /\ e.description = info.description
            /\ e.recommended_resolution = info.recommended_resolution
            /\ e.use_cases = Join(info.use_cases)
            /\ e.id = "developer" => e.use_cases = "coding, debugging"
    /\ FilesUntouched
C8_Witness ==
  /\ Invoked("list")
  /\ Len(registry) >= 2
  /\ Len(ListedEntries) = Len(registry)
  /\ dest \in Contents

\* C9 as stated: `backup` with no destination file exits 0, creates no
\* destination and leaves the backup file as it was.
BackupNothing == Invoked("backup") /\ last.preDest = Absent
C9_Original ==
  BackupNothing => last.exit = 0 /\ dest = Absent /\ backup = last.preBackup
\* C9 amended: it touches neither file in any case, and it exits 0 exactly
\* when the config file loads (a missing or invalid config file makes it
\* exit 1).
C9_BackupNothingToDo ==
  BackupNothing =>
    /\ dest = Absent
    /\ backup = last.preBackup
    /\ last.exit = 0 <=> config = "ok"
C9_Witness ==
  /\ BackupNothing
  /\ config = "ok"
  /\ last.exit = 0
  /\ Printed("no_current_layout")
  /\ backup \in Contents

====
